---------------------------- MODULE Spec2Model ----------------------------
(***************************************************************************)
(* A model of talk_base::UnixFilesystem (talk/base/unixfilesystem.cc), the *)
(* Linux build (neither OSX nor ANDROID defined).                          *)
(*                                                                         *)
(* A string is a sequence of one-character strings, so that indexing,      *)
(* prefixes and substr are what they are in the code.  The filesystem is a *)
(* function from the canonical paths of the existing nodes (a sequence of  *)
(* components; <<>> is the root directory, which is also the working       *)
(* directory) to the node.  Names "." and ".." and links are not modelled. *)
(***************************************************************************)
EXTENDS Integers, Sequences, FiniteSets, TLC

VARIABLES
  fs,              \* the filesystem: canonical path |-> [type, data]
  open,            \* the FileStream objects that are open (stream ids)
  env,             \* the environment variables TMPDIR and TMP
  app_temp_path_,  \* the static member UnixFilesystem::app_temp_path_
  clock,           \* what time(0) returns
  thr,             \* per thread: its position in GetAppTempFolder
  phase,           \* "idle", or "done" when the last call has returned
  call,            \* the last call: arguments, result and what it did
  ncalls           \* the number of calls made so far

vars == <<fs, open, env, app_temp_path_, clock, thr, phase, call, ncalls>>

-----------------------------------------------------------------------------
(* Bounds *)

\* The longest pathname handed to CreateFolder.
MaxLen == 5
\* The number of calls in one behaviour.
MaxCalls == 2
\* The most directories the disk has room for during one call.
MaxMk == 2
\* The number of file operations in one behaviour.
MaxFileCalls == 1

-----------------------------------------------------------------------------
(* Strings and pathnames *)

Sep == "/"
Empty == <<>>

\* The characters pathnames are drawn from.
Alphabet == {"/", "a"}

RECURSIVE StringsOfLen(_)
StringsOfLen(n) ==
  IF n = 0 THEN {Empty}
  ELSE {Append(s, c) : s \in StringsOfLen(n - 1), c \in Alphabet}

Strings == UNION {StringsOfLen(n) : n \in 0..MaxLen}

\* std::string::substr(0, n)
Substr0(s, n) == SubSeq(s, 1, n)

\* strncmp(s, prefix, strlen(prefix)) == 0
HasPrefix(s, prefix) ==
  /\ Len(s) >= Len(prefix)
  /\ SubSeq(s, 1, Len(prefix)) = prefix

\* find_last_of('/'): the 1-based place of the last separator, 0 when none.
RECURSIVE LastSep(_, _)
LastSep(s, i) ==
  IF i = 0 THEN 0 ELSE IF s[i] = Sep THEN i ELSE LastSep(s, i - 1)

\* Pathname::SetFolder / AppendFolder: the folder always ends in a separator.
WithSep(folder) ==
  IF folder # Empty /\ folder[Len(folder)] # Sep THEN Append(folder, Sep)
  ELSE folder

\* Pathname::SetPathname(folder, filename)
SetPathname2(folder, filename) == [folder |-> WithSep(folder), name |-> filename]

\* Pathname(pathname) / SetPathname(pathname): split at the last separator.
SetPathname(s) ==
  LET pos == LastSep(s, Len(s))
  IN [folder |-> WithSep(SubSeq(s, 1, pos)), name |-> SubSeq(s, pos + 1, Len(s))]

\* Pathname::AppendFolder(folder)
AppendFolder(p, folder) == [p EXCEPT !.folder = WithSep(p.folder \o folder)]

\* Pathname::pathname()
PathnameOf(p) == p.folder \o p.name

-----------------------------------------------------------------------------
(* The filesystem and the system calls *)

Dir == [type |-> "dir", data |-> <<>>]
File(d) == [type |-> "file", data |-> d]

Front(p) == SubSeq(p, 1, Len(p) - 1)

\* The components of a pathname: the maximal runs without a separator.
RECURSIVE SplitFrom(_, _, _, _)
SplitFrom(s, i, cur, acc) ==
  IF i > Len(s) THEN (IF cur = Empty THEN acc ELSE Append(acc, cur))
  ELSE IF s[i] = Sep
       THEN SplitFrom(s, i + 1, Empty, IF cur = Empty THEN acc ELSE Append(acc, cur))
       ELSE SplitFrom(s, i + 1, Append(cur, s[i]), acc)

Components(s) == SplitFrom(s, 1, Empty, <<>>)

\* Path resolution: "dir" or "file" for the node found, else the errno.
\* asdir: the node is looked into, or the pathname ends in a separator.
RECURSIVE Lookup(_, _, _)
Lookup(f, p, asdir) ==
  IF p = <<>> THEN "dir"
  ELSE LET up == Lookup(f, Front(p), TRUE)
       IN IF up # "dir" THEN up
          ELSE IF p \notin DOMAIN f THEN "ENOENT"
          ELSE IF f[p].type = "file" /\ asdir THEN "ENOTDIR"
          ELSE f[p].type

\* ::stat(pathname): "dir", "file", "ENOENT" or "ENOTDIR".
Stat(f, s) ==
  IF s = Empty THEN "ENOENT"
  ELSE Lookup(f, Components(s), s[Len(s)] = Sep)

\* ::mkdir(pathname, 0755) succeeds: the parent is a directory, nothing is at
\* the place, and the disk has room.
MkdirOk(st, s) ==
  LET p == Components(s)
  IN /\ p # <<>>
     /\ Lookup(st.fs, Front(p), TRUE) = "dir"
     /\ p \notin DOMAIN st.fs
     /\ st.room > 0

\* ::mkdir(pathname, 0755), and CreateFolder's result from it.
Mkdir(st, s) ==
  IF MkdirOk(st, s)
  THEN [st EXCEPT !.fs = (Components(s) :> Dir) @@ @,
                  !.room = @ - 1,
                  !.log = Append(@, <<"mkdir", s, TRUE>>),
                  !.ok = TRUE]
  ELSE [st EXCEPT !.log = Append(@, <<"mkdir", s, FALSE>>), !.ok = FALSE]

-----------------------------------------------------------------------------
(* UnixFilesystem::CreateFolder *)

\* Only the empty pathname is refused.
NotAFolderPathEmptyOnly(pathname) == Len(pathname) = 0

\* The pathname is refused: empty, or not ending in a separator.
NotAFolderPath(pathname) ==
  LET len == Len(pathname)
  IN (len = 0) \/ (pathname[len] # Sep)

\* S_ISDIR with its sense lost.
ExistsResultInverted(res) == res # "dir"

\* Something exists at this location, check if it is a directory.
ExistsResult(res) == res = "dir"

\* do { --len; } while ((len > 0) && (pathname[len - 1] != '/'));
RECURSIVE LookUpOneLevel(_, _)
LookUpOneLevel(pathname, len) ==
  LET l == len - 1
  IN IF (l > 0) /\ (pathname[l] # Sep) THEN LookUpOneLevel(pathname, l) ELSE l

Return(st, pathname, result) ==
  [st EXCEPT !.log = Append(@, <<"return", pathname, result>>), !.ok = result]

Enter(st, pathname) == [st EXCEPT !.log = Append(@, <<"call", pathname>>)]

\* The mkdir is made without looking at what the parent's call returned.
MkdirRegardless(up, pathname) ==
  LET made == Mkdir(up, pathname) IN Return(made, pathname, made.ok)

\* Lines 110-115: up is the state the parent's CreateFolder returned.
MkdirAfterParent(up, pathname) ==
  IF ~up.ok THEN Return(up, pathname, FALSE)
  ELSE LET made == Mkdir(up, pathname) IN Return(made, pathname, made.ok)

RECURSIVE CreateFolder(_, _)
CreateFolder(st, pathname) ==
  LET in == Enter(st, pathname)
  IN IF NotAFolderPath(pathname) THEN Return(in, pathname, FALSE)
     ELSE LET res == Stat(in.fs, pathname)
          IN IF res \in {"dir", "file"} THEN Return(in, pathname, ExistsResult(res))
             ELSE IF res # "ENOENT" THEN Return(in, pathname, FALSE)
             ELSE LET len == LookUpOneLevel(pathname, Len(pathname))
                      parent == PathnameOf(SetPathname(Substr0(pathname, len)))
                  IN MkdirAfterParent(CreateFolder(in, parent), pathname)

\* No system call fails for a reason outside the filesystem's contents.
NoFault == [rename |-> FALSE, openr |-> FALSE, openw |-> FALSE, unlink |-> FALSE,
            rfail |-> 0, wfail |-> 0]

\* The state an operation starts from: the filesystem, the open streams, the
\* room on the disk for new directories, and the faults the system calls meet.
Start(f, o, room, flt) ==
  [fs |-> f, open |-> o, room |-> room, flt |-> flt, log |-> <<>>, ok |-> FALSE]

-----------------------------------------------------------------------------
(* FileStream, as UnixFilesystem uses it: Open (fopen), Read, Write, delete *)

\* sizeof(buf) in CopyFile
BufSize == 256

StreamOf(st, id) == CHOOSE x \in st.open : x.id = id

FreshId(o) == CHOOSE i \in 1..(Cardinality(o) + 1) : \A x \in o : x.id # i

\* fopen(filename, "rb"): a file, or a directory (whose reads then fail).
OpenReadOk(st, s) == Stat(st.fs, s) \in {"file", "dir"} /\ ~st.flt.openr

\* fopen(filename, "wb"): the parent is a directory and no directory is in
\* the way; the file is created, or truncated if it exists.
OpenWriteOk(st, s) ==
  LET p == Components(s)
  IN /\ s # Empty
     /\ s[Len(s)] # Sep
     /\ p # <<>>
     /\ Lookup(st.fs, Front(p), TRUE) = "dir"
     /\ (p \in DOMAIN st.fs => st.fs[p].type = "file")
     /\ ~st.flt.openw

\* UnixFilesystem::OpenFile: the stream's id, 0 for NULL.
OpenFile(st, filename, mode) ==
  LET good == IF mode = "rb" THEN OpenReadOk(st, filename)
              ELSE OpenWriteOk(st, filename)
      id == FreshId(st.open)
      node == Components(filename)
  IN IF good
     THEN [stream |-> id,
           st |-> [st EXCEPT
                     !.fs = IF mode = "wb" THEN (node :> File(<<>>)) @@ @ ELSE @,
                     !.open = @ \cup {[id |-> id, node |-> node, mode |-> mode,
                                        pos |-> 0, n |-> 0]},
                     !.log = Append(@, <<"open", filename, mode, id>>)]]
     ELSE [stream |-> 0,
           st |-> [st EXCEPT !.log = Append(@, <<"open", filename, mode, 0>>)]]

\* delete stream
DeleteStream(st, id) ==
  [st EXCEPT !.open = {x \in @ : x.id # id},
             !.log = Append(@, <<"close", id>>)]

Advance(st, id, by) ==
  [st EXCEPT !.open = {IF x.id = id THEN [x EXCEPT !.pos = @ + by, !.n = @ + 1]
                       ELSE x : x \in @}]

\* StreamInterface::Read(buf, cap, &len, NULL): SR_SUCCESS with the next bytes
\* of the file, at most cap; SR_EOS at the end; SR_ERROR.
Read(st, id, cap) ==
  LET sm == StreamOf(st, id)
      there == sm.node \in DOMAIN st.fs
      data == IF there THEN st.fs[sm.node].data ELSE <<>>
      left == Len(data) - sm.pos
      len == IF left < cap THEN left ELSE cap
  IN IF (there /\ st.fs[sm.node].type = "dir") \/ st.flt.rfail = sm.n + 1
     THEN [res |-> "SR_ERROR", buf |-> <<>>, st |-> Advance(st, id, 0)]
     ELSE IF left <= 0
     THEN [res |-> "SR_EOS", buf |-> <<>>, st |-> Advance(st, id, 0)]
     ELSE [res |-> "SR_SUCCESS", buf |-> SubSeq(data, sm.pos + 1, sm.pos + len),
           st |-> Advance(st, id, len)]

\* StreamInterface::Write(buf, len, NULL, NULL): the bytes go to the file at
\* the stream's position, or, once the device is full, nowhere (SR_ERROR).
Write(st, id, buf) ==
  LET sm == StreamOf(st, id)
      data == IF sm.node \in DOMAIN st.fs THEN st.fs[sm.node].data ELSE <<>>
      head == [i \in 1..sm.pos |-> IF i <= Len(data) THEN data[i] ELSE 0]
      tail == SubSeq(data, sm.pos + Len(buf) + 1, Len(data))
  IN IF st.flt.wfail # 0 /\ sm.n + 1 >= st.flt.wfail
     THEN [res |-> "SR_ERROR", st |-> Advance(st, id, 0)]
     ELSE [res |-> "SR_SUCCESS",
           st |-> Advance([st EXCEPT !.fs = (sm.node :> File(head \o buf \o tail)) @@ @],
                          id, Len(buf))]

-----------------------------------------------------------------------------
(* IsFolder, IsFile, IsAbsent *)

IsFolder(f, s) == Stat(f, s) = "dir"

\* Treat symlinks, named pipes, etc. all as files.
IsFile(f, s) == Stat(f, s) = "file"

\* ENOTDIR is maintained as an error.
IsAbsent(f, s) == Stat(f, s) = "ENOENT"

-----------------------------------------------------------------------------
(* CopyFile, DeleteFile, MoveFile *)

Result(st, op, result) ==
  [st EXCEPT !.log = Append(@, <<op, result>>), !.ok = result]

\* The source stream is forgotten when the destination cannot be opened.
CopyFileNoDestLeak(st, source) == Result(st, "CopyFile", FALSE)

\* Lines 255-258: the destination could not be opened.
CopyFileNoDest(st, source) == Result(DeleteStream(st, source), "CopyFile", FALSE)

\* Lines 260-261: the copy loop; what Write returns is not looked at.
RECURSIVE CopyLoop(_, _, _)
CopyLoop(st, source, dest) ==
  LET r == Read(st, source, BufSize)
  IN IF r.res = "SR_SUCCESS" THEN CopyLoop(Write(r.st, dest, r.buf).st, source, dest)
     ELSE r.st

\* Lines 263-265.
CopyFileDone(st, source, dest) ==
  Result(DeleteStream(DeleteStream(st, source), dest), "CopyFile", TRUE)

CopyFile(st, old_path, new_path) ==
  LET source == OpenFile(st, old_path, "rb")
  IN IF source.stream = 0 THEN Result(source.st, "CopyFile", FALSE)
     ELSE LET dest == OpenFile(source.st, new_path, "wb")
          IN IF dest.stream = 0 THEN CopyFileNoDest(dest.st, source.stream)
             ELSE CopyFileDone(CopyLoop(dest.st, source.stream, dest.stream),
                               source.stream, dest.stream)

\* ::unlink(filename)
Unlink(st, s) ==
  LET good == Stat(st.fs, s) = "file" /\ ~st.flt.unlink
      p == Components(s)
  IN [st EXCEPT !.fs = IF good THEN [q \in DOMAIN @ \ {p} |-> @[q]] ELSE @,
                !.log = Append(@, <<"unlink", s, good>>),
                !.ok = good]

\* What unlink returned is not looked at.
DeleteFileBlind(st, filename) ==
  IF ~IsFile(st.fs, filename) THEN Result(st, "DeleteFile", FALSE)
  ELSE Result(Unlink(st, filename), "DeleteFile", TRUE)

DeleteFile(st, filename) ==
  IF ~IsFile(st.fs, filename) THEN Result(st, "DeleteFile", FALSE)
  ELSE LET gone == Unlink(st, filename) IN Result(gone, "DeleteFile", gone.ok)

M == <<"m">>

\* The device a node is on: /m is where a second device is mounted.
DevOf(p) == IF p # <<>> /\ p[1] = M THEN 2 ELSE 1

\* What rename(old, new) of a file comes to: "ok" or the errno.
RenameResult(st, old, new) ==
  LET o == Components(old)
      n == Components(new)
  IN IF Stat(st.fs, old) \notin {"file", "dir"} THEN Stat(st.fs, old)
     ELSE IF new = Empty \/ n = <<>> THEN "ENOENT"
     ELSE IF Lookup(st.fs, Front(n), TRUE) # "dir" THEN Lookup(st.fs, Front(n), TRUE)
     ELSE IF DevOf(o) # DevOf(n) THEN "EXDEV"
     ELSE IF st.flt.rename THEN "EACCES"
     ELSE IF new[Len(new)] = Sep THEN "ENOTDIR"
     ELSE IF n \in DOMAIN st.fs /\ st.fs[n].type = "dir" THEN "EISDIR"
     ELSE "ok"

\* ::rename(old, new); errno is left in st.errno.
Rename(st, old, new) ==
  LET res == RenameResult(st, old, new)
      o == Components(old)
      n == Components(new)
      moved == [q \in (DOMAIN st.fs \ {o}) \cup {n} |->
                  IF q = n THEN st.fs[o] ELSE st.fs[q]]
  IN [st EXCEPT !.fs = IF res = "ok" THEN moved ELSE @,
                !.log = Append(@, <<"rename", old, new, res>>),
                !.ok = (res = "ok")]

\* Any failure of rename is answered by copying.
FallsBackAlways(errno) == TRUE

\* if (errno != EXDEV) return false;
FallsBack(errno) == errno = "EXDEV"

MoveFile(st, old_path, new_path) ==
  IF ~IsFile(st.fs, old_path) THEN Result(st, "MoveFile", FALSE)
  ELSE LET r == Rename(st, old_path, new_path)
           errno == r.log[Len(r.log)][4]
       IN IF r.ok THEN Result(r, "MoveFile", TRUE)
          ELSE IF ~FallsBack(errno) THEN Result(r, "MoveFile", FALSE)
          ELSE LET c == CopyFile(r, old_path, new_path)
               IN IF ~c.ok THEN Result(c, "MoveFile", FALSE)
                  ELSE LET d == DeleteFile(c, old_path)
                       IN IF ~d.ok THEN Result(d, "MoveFile", FALSE)
                          ELSE Result(d, "MoveFile", TRUE)

-----------------------------------------------------------------------------
(* GetTemporaryFolder, IsTemporaryPath, GetAppTempFolder *)

\* An environment variable that is not set (getenv returns NULL); a variable
\* that is set is <<value>>.  The same for a pointer argument.
Null == <<>>

\* P_tmpdir of <stdio.h>
P_tmpdir == <<"/", "t", "m", "p">>

\* Lines 163-173: TMPDIR, else TMP, else P_tmpdir.
TemporaryRoot(e) ==
  IF e.TMPDIR # Null THEN SetPathname2(e.TMPDIR[1], Empty)
  ELSE IF e.TMP # Null THEN SetPathname2(e.TMP[1], Empty)
  ELSE SetPathname2(P_tmpdir, Empty)

\* GetTemporaryFolder(pathname, create, append): the pathname it leaves in
\* path, and its result in st.ok.
GetTemporaryFolder(st, e, create, append) ==
  LET root == TemporaryRoot(e)
      pathname == IF append # Null THEN AppendFolder(root, append[1]) ELSE root
  IN [path |-> pathname,
      st |-> IF create THEN CreateFolder(st, PathnameOf(pathname))
             ELSE [st EXCEPT !.ok = TRUE]]

kTempPrefixes == {<<"/", "t", "m", "p", "/">>,
                  <<"/", "v", "a", "r", "/", "t", "m", "p", "/">>}

IsTemporaryPath(pathname) ==
  \E prefix \in kTempPrefixes : HasPrefix(PathnameOf(pathname), prefix)

DigitChars == <<"0", "1", "2", "3", "4", "5", "6", "7", "8", "9">>

\* "%d" of sprintfn
RECURSIVE FormatInt(_)
FormatInt(n) ==
  IF n < 0 THEN <<"-">> \o FormatInt(0 - n)
  ELSE IF n < 10 THEN <<DigitChars[n + 1]>>
  ELSE FormatInt(n \div 10) \o <<DigitChars[(n % 10) + 1]>>

\* application_name_, and what getpid() returns.
application_name_ == <<"a", "p", "p">>
Pid == 7

\* Lines 414-419: <appname>-<pid>-<timestamp>
AppFolderName(pid, now) ==
  application_name_ \o <<"-">> \o FormatInt(pid) \o <<"-">> \o FormatInt(now)

\* The cached path is never looked at.
NeverCached(cache) == FALSE

\* if (!app_temp_path_.empty())
Cached(cache) == cache # Empty

\* A lock is held from the check to the assignment.
MayRunLocked(positions, t) ==
  \A u \in DOMAIN positions : u = t \/ positions[u].pc \notin {"make", "assign"}

\* No lock is taken around the check and the assignment of app_temp_path_
\* ("TODO: Consider whether we are worried about thread safety").
MayRun(positions, t) == TRUE

-----------------------------------------------------------------------------
(* Initial states *)

A == <<"a">>
AA == <<"a", "a">>

Absent == [type |-> "absent", data |-> <<>>]

\* The filesystem that holds the nodes of f that are not absent.
Prune(f) == [p \in {q \in DOMAIN f : f[q].type # "absent"} |-> f[p]]

\* The filesystems a behaviour of the folder operations starts from: /a, /a/a
\* and /aa, each absent, a file or a directory, a node only in a directory.
InitTrees ==
  LET kinds == {Absent, Dir, File(<<>>)}
  IN {Prune((<<>> :> Dir) @@ (<<A>> :> k[1]) @@ (<<AA>> :> k[2]) @@ (<<A, A>> :> k[3])) :
        k \in {x \in kinds \X kinds \X kinds : x[3] = Absent \/ x[1] = Dir}}

\* n bytes, told apart by k.
Bytes(n, k) == [i \in 1..n |-> (i + k) % 256]

\* The sizes of the files: none, less than a chunk, a chunk, more than one.
Sizes == {0, 3, BufSize, BufSize + 1}

\* The filesystems a behaviour of the file operations starts from: /a absent,
\* a directory or a file of one of the sizes, the mount point /m, and /m/a
\* absent, a file or a directory.
FileTrees ==
  {Prune((<<>> :> Dir) @@ (<<M>> :> Dir) @@ (<<A>> :> a) @@ (<<M, A>> :> c)) :
     a \in {Absent, Dir} \cup {File(Bytes(n, 0)) : n \in Sizes},
     c \in {Absent, Dir, File(Bytes(1, 200))}}

\* The pathnames the file operations are called with.
FilePaths == {<<"/", "a">>, <<"/", "a", "a">>, <<"/", "m", "/", "a">>,
              <<"/", "m", "/">>, <<"/", "a", "/", "a">>}

\* What the system calls of a CopyFile can meet: fopen failing for the
\* source or for the destination, the first or the second Read failing, the
\* device full from the first or from the second Write.
CopyFaults ==
  {NoFault,
   [NoFault EXCEPT !.openr = TRUE],
   [NoFault EXCEPT !.openw = TRUE],
   [NoFault EXCEPT !.rfail = 1],
   [NoFault EXCEPT !.rfail = 2],
   [NoFault EXCEPT !.wfail = 1],
   [NoFault EXCEPT !.wfail = 2]}

\* What the system calls of a MoveFile can meet: those of a CopyFile, rename
\* or unlink refused (EACCES), and a full device with unlink refused.
MoveFaults ==
  CopyFaults \cup
  {[NoFault EXCEPT !.rename = TRUE],
   [NoFault EXCEPT !.unlink = TRUE],
   [NoFault EXCEPT !.wfail = 1, !.unlink = TRUE]}

NoCall == [op |-> "none"]

NoEnv == {[TMPDIR |-> Null, TMP |-> Null]}

InitWith(trees, envs) ==
  /\ fs \in trees
  /\ open = {}
  /\ env \in envs
  /\ app_temp_path_ = Empty
  /\ clock = 0
  /\ thr = <<>>
  /\ phase = "idle"
  /\ call = NoCall
  /\ ncalls = 0

Init == InitWith(InitTrees, NoEnv)

TMP == <<"t", "m", "p">>

\* The filesystems a behaviour of the temporary folder operations starts from.
TempTrees == {(<<>> :> Dir), (<<>> :> Dir) @@ (<<TMP>> :> Dir)}

\* What TMPDIR and TMP are set to: not set, temporary folders with and
\* without the final separator, and a folder of the user's.
EnvValues == {Null, <<P_tmpdir>>,
              <<<<"/", "v", "a", "r", "/", "t", "m", "p", "/">>>>,
              <<<<"/", "h", "o", "m", "e", "/", "u">>>>}

InitTemp == InitWith(TempTrees, [TMPDIR : EnvValues, TMP : EnvValues])

Threads == {1, 2}

InitApp ==
  /\ fs \in TempTrees
  /\ open = {}
  /\ env = [TMPDIR |-> Null, TMP |-> Null]
  /\ app_temp_path_ = Empty
  /\ clock = 0
  /\ thr = [t \in Threads |-> [pc |-> "idle", path |-> SetPathname(Empty)]]
  /\ phase = "idle"
  /\ call = [op |-> "GetAppTempFolder", rets |-> <<>>, assigns |-> <<>>,
             overlap |-> FALSE]
  /\ ncalls = 0

InitFile == InitWith(FileTrees, NoEnv)

-----------------------------------------------------------------------------
(* The folder operations *)

\* A caller calls CreateFolder(pathname); room is the room the disk has.
CallCreateFolder ==
  /\ phase = "idle"
  /\ ncalls < MaxCalls
  /\ \E pathname \in Strings, room \in 0..MaxMk :
       LET out == CreateFolder(Start(fs, open, room, NoFault), pathname)
       IN /\ fs' = out.fs
          /\ call' = [op |-> "CreateFolder", path |-> pathname, ok |-> out.ok,
                      log |-> out.log, pre |-> fs, first |-> fs, reps |-> 1]
  /\ phase' = "done"
  /\ ncalls' = ncalls + 1
  /\ UNCHANGED <<open, env, app_temp_path_, clock, thr>>

\* The caller calls CreateFolder again with the same pathname.
RepeatCreateFolder ==
  /\ phase = "done"
  /\ call.op = "CreateFolder"
  /\ ncalls < MaxCalls
  /\ \E room \in 0..MaxMk :
       LET out == CreateFolder(Start(fs, open, room, NoFault), call.path)
       IN /\ fs' = out.fs
          /\ call' = [call EXCEPT !.ok = out.ok, !.log = out.log, !.pre = fs,
                                  !.reps = @ + 1]
  /\ ncalls' = ncalls + 1
  /\ UNCHANGED <<open, env, app_temp_path_, clock, thr, phase>>

\* The caller has looked at the result.
Forget ==
  /\ phase = "done"
  /\ phase' = "idle"
  /\ call' = NoCall
  /\ UNCHANGED <<fs, open, env, app_temp_path_, clock, thr, ncalls>>

Next == CallCreateFolder \/ RepeatCreateFolder \/ Forget

Spec == Init /\ [][Next]_vars

-----------------------------------------------------------------------------
(* The file operations *)

\* The record of a returned file operation.
FileCall(op, old, new, flt, out) ==
  [op |-> op, old |-> old, new |-> new, flt |-> flt, ok |-> out.ok,
   log |-> out.log, pre |-> fs, preopen |-> open]

CallCopyFile ==
  /\ phase = "idle"
  /\ ncalls < MaxFileCalls
  /\ \E old_path \in FilePaths, new_path \in FilePaths, flt \in CopyFaults :
       LET out == CopyFile(Start(fs, open, 0, flt), old_path, new_path)
       IN /\ fs' = out.fs
          /\ open' = out.open
          /\ call' = FileCall("CopyFile", old_path, new_path, flt, out)
  /\ phase' = "done"
  /\ ncalls' = ncalls + 1
  /\ UNCHANGED <<env, app_temp_path_, clock, thr>>

CallMoveFile ==
  /\ phase = "idle"
  /\ ncalls < MaxFileCalls
  /\ \E old_path \in FilePaths, new_path \in FilePaths, flt \in MoveFaults :
       LET out == MoveFile(Start(fs, open, 0, flt), old_path, new_path)
       IN /\ fs' = out.fs
          /\ open' = out.open
          /\ call' = FileCall("MoveFile", old_path, new_path, flt, out)
  /\ phase' = "done"
  /\ ncalls' = ncalls + 1
  /\ UNCHANGED <<env, app_temp_path_, clock, thr>>

CallDeleteFile ==
  /\ phase = "idle"
  /\ ncalls < MaxFileCalls
  /\ \E filename \in FilePaths, unlink \in BOOLEAN :
       LET flt == [NoFault EXCEPT !.unlink = unlink]
           out == DeleteFile(Start(fs, open, 0, flt), filename)
       IN /\ fs' = out.fs
          /\ open' = out.open
          /\ call' = FileCall("DeleteFile", filename, filename, flt, out)
  /\ phase' = "done"
  /\ ncalls' = ncalls + 1
  /\ UNCHANGED <<env, app_temp_path_, clock, thr>>

\* A caller opens a stream and keeps it (it holds one stream at most).
CallOpenFile ==
  /\ phase = "idle"
  /\ open = {}
  /\ \E filename \in FilePaths, mode \in {"rb", "wb"} :
       LET out == OpenFile(Start(fs, open, 0, NoFault), filename, mode)
       IN /\ out.stream # 0
          /\ fs' = out.st.fs
          /\ open' = out.st.open
  /\ UNCHANGED <<env, app_temp_path_, clock, thr, phase, call, ncalls>>

\* The caller deletes the stream it kept.
CallDeleteStream ==
  /\ phase = "idle"
  /\ \E x \in open : open' = DeleteStream(Start(fs, open, 0, NoFault), x.id).open
  /\ UNCHANGED <<fs, env, app_temp_path_, clock, thr, phase, call, ncalls>>

NextFile ==
  \/ CallCopyFile
  \/ CallMoveFile
  \/ CallDeleteFile
  \/ CallOpenFile
  \/ CallDeleteStream
  \/ Forget

SpecFile == InitFile /\ [][NextFile]_vars

-----------------------------------------------------------------------------
(* The temporary folder operations *)

\* The segments a caller appends: none, or a folder name.
Appends == {Null, <<<<"x">>>>}

\* /home/user/doc.txt
DocTxt == <<"/", "h", "o", "m", "e", "/", "u", "s", "e", "r", "/",
            "d", "o", "c", ".", "t", "x", "t">>

CallGetTemporaryFolder ==
  /\ phase = "idle"
  /\ ncalls < MaxCalls
  /\ \E create \in BOOLEAN, append \in Appends, room \in 0..MaxMk :
       LET out == GetTemporaryFolder(Start(fs, open, room, NoFault), env, create, append)
       IN /\ fs' = out.st.fs
          /\ call' = [op |-> "GetTemporaryFolder", create |-> create,
                      append |-> append, path |-> out.path, ok |-> out.st.ok,
                      pre |-> fs]
  /\ phase' = "done"
  /\ ncalls' = ncalls + 1
  /\ UNCHANGED <<open, env, app_temp_path_, clock, thr>>

\* IsTemporaryPath of the pathname GetTemporaryFolder has just returned.
CallIsTemporaryPathOfFolder ==
  /\ phase = "done"
  /\ call.op = "GetTemporaryFolder"
  /\ call.ok
  /\ call' = [op |-> "IsTemporaryPath", path |-> call.path, of |-> "folder",
              result |-> IsTemporaryPath(call.path)]
  /\ UNCHANGED <<fs, open, env, app_temp_path_, clock, thr, phase, ncalls>>

\* IsTemporaryPath of /home/user/doc.txt.
CallIsTemporaryPathOfOther ==
  /\ phase = "idle"
  /\ call' = [op |-> "IsTemporaryPath", path |-> SetPathname(DocTxt), of |-> "other",
              result |-> IsTemporaryPath(SetPathname(DocTxt))]
  /\ phase' = "done"
  /\ UNCHANGED <<fs, open, env, app_temp_path_, clock, thr, ncalls>>

NextTemp ==
  \/ CallGetTemporaryFolder
  \/ CallIsTemporaryPathOfFolder
  \/ CallIsTemporaryPathOfOther
  \/ Forget

SpecTemp == InitTemp /\ [][NextTemp]_vars

-----------------------------------------------------------------------------
(* GetAppTempFolder, called from the threads of the process.  A step of a   *)
(* thread is atomic, so of two racing accesses to app_temp_path_ one comes  *)
(* first: the outcomes are those of either order.                           *)

\* The last second of the clock.
MaxClock == 2

Returns(t, ok, path) ==
  [call EXCEPT !.rets = Append(@, [t |-> t, ok |-> ok, path |-> path, at |-> clock])]

\* Thread t calls GetAppTempFolder.
BeginGetAppTempFolder(t) ==
  /\ thr[t].pc = "idle"
  /\ ncalls < MaxCalls
  /\ thr' = [thr EXCEPT ![t].pc = "check"]
  /\ call' = [call EXCEPT !.overlap = @ \/ \E u \in Threads \ {t} : thr[u].pc # "idle"]
  /\ ncalls' = ncalls + 1
  /\ UNCHANGED <<fs, open, env, app_temp_path_, clock, phase>>

\* Lines 408-411: the cached path is returned when there is one.
CheckCache(t) ==
  /\ thr[t].pc = "check"
  /\ MayRun(thr, t)
  /\ IF Cached(app_temp_path_)
     THEN /\ thr' = [thr EXCEPT ![t] = [pc |-> "idle",
                                        path |-> SetPathname(app_temp_path_)]]
          /\ call' = Returns(t, TRUE, SetPathname(app_temp_path_))
     ELSE /\ thr' = [thr EXCEPT ![t].pc = "make"]
          /\ UNCHANGED call
  /\ UNCHANGED <<fs, open, env, app_temp_path_, clock, phase, ncalls>>

\* Lines 413-421: the folder <tmp>/<appname>-<pid>-<timestamp>/ is made.
MakeFolder(t) ==
  /\ thr[t].pc = "make"
  /\ \E room \in 0..MaxMk :
       LET folder == AppFolderName(Pid, clock)
           out == GetTemporaryFolder(Start(fs, open, room, NoFault), env, TRUE,
                                     <<folder>>)
       IN /\ fs' = out.st.fs
          /\ IF ~out.st.ok
             THEN /\ thr' = [thr EXCEPT ![t] = [pc |-> "idle", path |-> out.path]]
                  /\ call' = Returns(t, FALSE, out.path)
             ELSE /\ thr' = [thr EXCEPT ![t] = [pc |-> "assign", path |-> out.path]]
                  /\ UNCHANGED call
  /\ UNCHANGED <<open, env, app_temp_path_, clock, phase, ncalls>>

\* Lines 423-425: app_temp_path_ = path->pathname(); return true;
AssignCache(t) ==
  /\ thr[t].pc = "assign"
  /\ app_temp_path_' = PathnameOf(thr[t].path)
  /\ thr' = [thr EXCEPT ![t].pc = "idle"]
  /\ call' = [Returns(t, TRUE, thr[t].path) EXCEPT
                !.assigns = Append(@, [t |-> t, was |-> app_temp_path_,
                                       is |-> PathnameOf(thr[t].path)])]
  /\ UNCHANGED <<fs, open, env, clock, phase, ncalls>>

\* A second passes.
Tick ==
  /\ clock < MaxClock
  /\ clock' = clock + 1
  /\ UNCHANGED <<fs, open, env, app_temp_path_, thr, phase, call, ncalls>>

NextApp ==
  \/ \E t \in Threads : BeginGetAppTempFolder(t)
  \/ \E t \in Threads : CheckCache(t)
  \/ \E t \in Threads : MakeFolder(t)
  \/ \E t \in Threads : AssignCache(t)
  \/ Tick

SpecApp == InitApp /\ [][NextApp]_vars

-----------------------------------------------------------------------------
(* Claims about CreateFolder *)

Returned(op) == phase = "done" /\ call.op = op

\* The places of the log's entries of one kind.
Entries(log, kind) == {i \in 1..Len(log) : log[i][1] = kind}

\* C1: for every pathname that is empty or does not end in '/', CreateFolder
\* returns failure, whatever the filesystem holds, and creates no directory:
\* it makes no mkdir and leaves the filesystem as it was.
C1_NonFolderPathFails ==
  (Returned("CreateFolder")
     /\ (call.path = Empty \/ call.path[Len(call.path)] # "/"))
  => /\ ~call.ok
     /\ fs = call.pre
     /\ Entries(call.log, "mkdir") = {}

\* C1's case: a pathname without the final separator that names an existing
\* node, and the empty pathname, were both refused.
C1_Witness ==
  /\ Returned("CreateFolder")
  /\ call.path # Empty
  /\ call.path[Len(call.path)] # "/"
  /\ Stat(call.pre, call.path) = "dir"
  /\ ~call.ok

\* The pathname is d + "/" for a directory d that existed before the first of
\* the repeated calls.
OnExistingDirectory ==
  /\ Returned("CreateFolder")
  /\ call.path # Empty
  /\ call.path[Len(call.path)] = "/"
  /\ Stat(call.first, Front(call.path)) = "dir"

\* C2: for an existing directory d, CreateFolder(d + "/") succeeds, and so
\* does every repetition of the call, and the filesystem stays what it was
\* before the first call.
C2_ExistingFolderIdempotent ==
  OnExistingDirectory => (call.ok /\ fs = call.first /\ fs = call.pre)

\* C2's case: the call on an existing directory has been repeated.
C2_Witness == OnExistingDirectory /\ call.reps >= 2 /\ call.ok

\* The prefixes of a pathname that end in a separator, the pathname included.
FolderPrefixes(s) == {Substr0(s, i) : i \in {j \in 1..Len(s) : s[j] = "/"}}

\* The calls of the log, in order.
CallsOf(log) ==
  LET RECURSIVE pick(_)
      pick(i) == IF i > Len(log) THEN <<>>
                 ELSE IF log[i][1] = "call" THEN <<log[i][2]>> \o pick(i + 1)
                 ELSE pick(i + 1)
  IN pick(1)

\* C10: for a separator-terminated pathname CreateFolder returns, every
\* recursive call being made on a strictly shorter prefix of its caller's
\* pathname that is empty or ends in a separator; when it returns success
\* the pathname and every ancestor prefix is a directory; it fails when a
\* non-directory is at the path; and every mkdir is attempted after the call
\* on the parent prefix returned success.
C10_EnsureFolder ==
  (Returned("CreateFolder") /\ call.path # Empty /\ call.path[Len(call.path)] = "/")
  => LET log == call.log
         calls == CallsOf(log)
     IN /\ log[Len(log)] = <<"return", call.path, call.ok>>
        /\ calls[1] = call.path
        /\ \A k \in 2..Len(calls) :
              /\ Len(calls[k]) < Len(calls[k - 1])
              /\ calls[k] = Substr0(calls[k - 1], Len(calls[k]))
              /\ calls[k] = Empty \/ calls[k][Len(calls[k])] = "/"
              /\ \A j \in (Len(calls[k]) + 1)..(Len(calls[k - 1]) - 1) :
                    calls[k - 1][j] # "/"
        /\ call.ok => \A p \in FolderPrefixes(call.path) : Stat(fs, p) = "dir"
        /\ Lookup(call.pre, Components(call.path), FALSE) = "file" => ~call.ok
        /\ \A i \in Entries(log, "mkdir") :
              \E j \in 1..(i - 1) :
                /\ log[j][1] = "return"
                /\ log[j][3] = TRUE
                /\ Len(log[j][2]) < Len(log[i][2])
                /\ log[j][2] = Substr0(log[i][2], Len(log[j][2]))
                /\ \A m \in (Len(log[j][2]) + 1)..(Len(log[i][2]) - 1) :
                      log[i][2][m] # "/"

\* C10's case: two missing levels were created, the parent first.
C10_Witness ==
  /\ Returned("CreateFolder")
  /\ call.ok
  /\ Cardinality(Entries(call.log, "mkdir")) = 2
  /\ Cardinality(DOMAIN fs) = Cardinality(DOMAIN call.pre) + 2

-----------------------------------------------------------------------------
(* Claims about the file operations *)

MoveSucceeded == Returned("MoveFile") /\ call.ok

\* C3 as stated: whenever MoveFile(old, new) returns success, IsAbsent(old)
\* and IsFile(new) hold, for every pair of pathnames.
C3_MoveEveryPair ==
  MoveSucceeded => (IsAbsent(fs, call.old) /\ IsFile(fs, call.new))

\* C3, amended: whenever MoveFile(old, new) returns success and old and new
\* do not name the same file, IsAbsent(old) and IsFile(new) hold, after a
\* rename as after a copy and delete.
C3_MoveDistinct ==
  (MoveSucceeded /\ Components(call.old) # Components(call.new))
  => (IsAbsent(fs, call.old) /\ IsFile(fs, call.new))

\* C3's case: a move across devices succeeded by copy and delete.
C3_Witness ==
  /\ MoveSucceeded
  /\ Components(call.old) # Components(call.new)
  /\ \E i \in Entries(call.log, "rename") : call.log[i][4] = "EXDEV"
  /\ \E i \in Entries(call.log, "unlink") : call.log[i][3] = TRUE

\* C4: after CopyFile(src, dst) of a file to another pathname returns
\* success, dst holds the bytes src held when the call started.
C4_CopyEqualsSource ==
  (Returned("CopyFile") /\ call.ok /\ IsFile(call.pre, call.old)
     /\ Components(call.old) # Components(call.new))
  => /\ IsFile(fs, call.new)
     /\ fs[Components(call.new)].data = call.pre[Components(call.old)].data

\* C7: when CopyFile returns, the open streams are those that were open when
\* it was called, and each stream it opened has been deleted: on a source
\* that cannot be opened, on a destination that cannot be opened, and after
\* the copy loop.
C7_StreamsReleased ==
  Returned("CopyFile")
  => /\ open = call.preopen
     /\ \A i \in Entries(call.log, "open") :
          call.log[i][4] # 0
          => \E j \in (i + 1)..Len(call.log) :
               call.log[j] = <<"close", call.log[i][4]>>

\* C7's case: the source was opened and the destination could not be, while
\* the caller held a stream of its own.
C7_Witness ==
  /\ Returned("CopyFile")
  /\ ~call.ok
  /\ call.preopen # {}
  /\ \E i, j \in Entries(call.log, "open") :
        /\ call.log[i][3] = "rb" /\ call.log[i][4] # 0
        /\ call.log[j][3] = "wb" /\ call.log[j][4] = 0

\* C9: MoveFile copies only after rename failed with EXDEV, and unlinks the
\* original only after CopyFile returned success; when it returns failure a
\* file is still at old_path if one was there before; and after a rename
\* that failed otherwise nothing is opened, copied or unlinked.
C9_MoveFallback ==
  Returned("MoveFile")
  => LET log == call.log
         exdev(x) == x[1] = "rename" /\ x[4] = "EXDEV"
         copied(x) == x = <<"CopyFile", TRUE>>
     IN /\ \A i \in Entries(log, "open") \cup Entries(log, "CopyFile") :
             \E j \in 1..(i - 1) : exdev(log[j])
        /\ \A i \in Entries(log, "unlink") \cup Entries(log, "DeleteFile") :
             \E j \in 1..(i - 1) : copied(log[j])
        /\ (~call.ok /\ IsFile(call.pre, call.old)) => IsFile(fs, call.old)
        /\ (\E i \in Entries(log, "rename") : log[i][4] \notin {"ok", "EXDEV"})
           => (Len(log) = 2 /\ ~call.ok /\ fs = call.pre)

\* C9's case: across devices the copy succeeded and the unlink was refused:
\* MoveFile failed and the file is still at old_path.
C9_Witness ==
  /\ Returned("MoveFile")
  /\ ~call.ok
  /\ <<"CopyFile", TRUE>> \in {call.log[i] : i \in 1..Len(call.log)}
  /\ \E i \in Entries(call.log, "unlink") : call.log[i][3] = FALSE
  /\ IsFile(fs, call.old)

-----------------------------------------------------------------------------
(* Claims about the temporary folders *)

\* C6: IsTemporaryPath returns true for the pathname GetTemporaryFolder
\* returned, whatever TMPDIR and TMP are and whatever is appended, and false
\* for /home/user/doc.txt.
C6_TemporaryFolderIsTemporary ==
  (phase = "done" /\ call.op = "IsTemporaryPath")
  => /\ call.of = "folder" => call.result
     /\ call.of = "other" => ~call.result

Succeeded == {i \in 1..Len(call.rets) : call.rets[i].ok}

\* C5 as stated: of calls that do not overlap any two return the same path,
\* the first call stores it in app_temp_path_, and app_temp_path_, once not
\* empty, is never assigned again.
C5_EveryCallSamePath ==
  ~call.overlap
  => /\ \A i, j \in 1..Len(call.rets) : call.rets[i].path = call.rets[j].path
     /\ Len(call.rets) >= 1 => app_temp_path_ = PathnameOf(call.rets[1].path)
     /\ \A k \in 1..Len(call.assigns) : call.assigns[k].was = Empty

\* C5, amended: of calls that do not overlap any two that succeed return the
\* same path, the first that succeeds stores it in app_temp_path_, every
\* later one returns what is stored, and app_temp_path_, once not empty, is
\* never assigned again.
C5_SuccessfulCallsSamePath ==
  ~call.overlap
  => /\ \A i, j \in Succeeded : call.rets[i].path = call.rets[j].path
     /\ \A i \in Succeeded : app_temp_path_ = PathnameOf(call.rets[i].path)
     /\ Succeeded = {} => app_temp_path_ = Empty
     /\ \A k \in 1..Len(call.assigns) : call.assigns[k].was = Empty
     /\ Len(call.assigns) <= 1

\* C5's case: two calls, one after the other and at different seconds, have
\* both succeeded.
C5_Witness ==
  /\ ~call.overlap
  /\ \E i, j \in Succeeded : i < j /\ call.rets[i].at < call.rets[j].at
  /\ Len(call.assigns) = 1

\* C8: app_temp_path_ is read and written without synchronization: a thread
\* at the emptiness check, or at the assignment, can take its step wherever
\* the other threads are.
C8_NoSynchronization ==
  \A t \in Threads :
    /\ thr[t].pc = "check" => ENABLED CheckCache(t)
    /\ thr[t].pc = "assign" => ENABLED AssignCache(t)

\* C8's case: both threads found the cache empty, both made a path and both
\* assigned it, the second over the first's.
C8_Witness ==
  /\ Len(call.assigns) = 2
  /\ call.assigns[1].t # call.assigns[2].t
  /\ call.assigns[2].was = call.assigns[1].is
  /\ call.assigns[2].is # call.assigns[1].is

=============================================================================
